---- MODULE Spec2Model ----
(***************************************************************************)
(* A model of react-hook-storage: the useStorage hook (a cell that keeps   *)
(* a cached string beside a localStorage entry), its string coercion       *)
(* parseString, and the StorageProvider / useStorageContext pair.          *)
(*                                                                         *)
(* Strings are sequences of UTF-16 code units, so that String(),           *)
(* parseFloat and JSON.parse are computed character by character.  A code  *)
(* unit is written as a one-character string where TLA+ can write it       *)
(* (U+0020..U+007E but the grave accent, and "\t", "\n", "\f", "\r") and   *)
(* as "U+XXXX", four upper-case hexadecimal digits, everywhere else: see   *)
(* CodeUnitChar.                                                           *)
(*                                                                         *)
(* JavaScript values are records tagged by "kind".  A finite number is a   *)
(* double, kept as the decimal Number::toString prints for it:             *)
(* (-1)^neg * ds * 10^e, ds being the fewest digits that read back as the  *)
(* same double.  Decimal computes it with round-to-nearest, ties-to-even.  *)
(***************************************************************************)
EXTENDS Integers, Sequences, FiniteSets, TLC

(***************************************************************************)
(* JavaScript values                                                       *)
(***************************************************************************)
Undefined == [kind |-> "Undefined"]
Null == [kind |-> "Null"]
Bool(b) == [kind |-> "Boolean", b |-> b]
Str(s) == [kind |-> "String", s |-> s]
NaN == [kind |-> "Number", cls |-> "NaN", neg |-> FALSE, ds |-> <<>>, e |-> 0]
Infinity(neg) == [kind |-> "Number", cls |-> "Infinity", neg |-> neg, ds |-> <<>>, e |-> 0]
Finite(neg, ds, e) == [kind |-> "Number", cls |-> "finite", neg |-> neg, ds |-> ds, e |-> e]
Zero(neg) == Finite(neg, <<"0">>, 0)
Arr(items) == [kind |-> "Array", items |-> items]
Obj(keys, items) == [kind |-> "Object", keys |-> keys, items |-> items]

\* typeof v === "object" && v !== null
IsObject(v) == v.kind \in {"Array", "Object"}

\* The one element of a one-element set: The({F(v) : v \in {e}}) is F(e) with e
\* computed once.
The(S) == CHOOSE v \in S : TRUE

(***************************************************************************)
(* Characters and decimal digits                                           *)
(***************************************************************************)
DigitChars == <<"0", "1", "2", "3", "4", "5", "6", "7", "8", "9">>

IsDigit(c) == \E d \in 1..10 : DigitChars[d] = c

DigitVal(c) == (CHOOSE d \in 1..10 : DigitChars[d] = c) - 1

HexChars == DigitChars \o <<"A", "B", "C", "D", "E", "F">>

\* The value of a hexadecimal digit of either case, -1 for any other character
HexVal(c) ==
    IF \E d \in 1..16 : HexChars[d] = c THEN (CHOOSE d \in 1..16 : HexChars[d] = c) - 1
    ELSE CASE c = "a" -> 10 [] c = "b" -> 11 [] c = "c" -> 12
           [] c = "d" -> 13 [] c = "e" -> 14 [] c = "f" -> 15 [] OTHER -> -1

\* The code units U+0020..U+007E (a TLA+ string cannot hold the grave accent)
Printable ==
    <<" ", "!", "\"", "#", "$", "%", "&", "'", "(", ")", "*", "+", ",", "-", ".", "/",
      "0", "1", "2", "3", "4", "5", "6", "7", "8", "9", ":", ";", "<", "=", ">", "?",
      "@", "A", "B", "C", "D", "E", "F", "G", "H", "I", "J", "K", "L", "M", "N", "O",
      "P", "Q", "R", "S", "T", "U", "V", "W", "X", "Y", "Z", "[", "\\", "]", "^", "_",
      "U+0060", "a", "b", "c", "d", "e", "f", "g", "h", "i", "j", "k", "l", "m", "n", "o",
      "p", "q", "r", "s", "t", "u", "v", "w", "x", "y", "z", "{", "|", "}", "~">>

\* The character that stands for the code unit n (0..65535)
CodeUnitChar(n) ==
    IF n = 9 THEN "\t"
    ELSE IF n = 10 THEN "\n"
    ELSE IF n = 12 THEN "\f"
    ELSE IF n = 13 THEN "\r"
    ELSE IF 32 <= n /\ n <= 126 THEN Printable[n - 31]
    ELSE "U+" \o HexChars[(n \div 4096) + 1] \o HexChars[((n \div 256) % 16) + 1]
              \o HexChars[((n \div 16) % 16) + 1] \o HexChars[(n % 16) + 1]

\* StrWhiteSpaceChar, the white space parseFloat skips: WhiteSpace (TAB, VT, FF,
\* SP, NBSP, ZWNBSP and the space separators) and LineTerminator (LF, CR, LS, PS).
WhiteSpace ==
    {CodeUnitChar(n) : n \in {9, 10, 11, 12, 13, 32, 160, 5760, 8232, 8233, 8239,
                              8287, 12288, 65279} \cup (8192..8202)}

\* The white space of the JSON grammar: space, tab, line feed, carriage return
JSONWhiteSpace == {" ", "\t", "\n", "\r"}

\* The characters below U+0020, which a JSON string may not hold unescaped
ControlChars == {CodeUnitChar(n) : n \in 0..31}

RECURSIVE SkipWS(_, _)
SkipWS(s, i) == IF i <= Len(s) /\ s[i] \in WhiteSpace THEN SkipWS(s, i + 1) ELSE i

RECURSIVE SkipJSONWS(_, _)
SkipJSONWS(s, i) == IF i <= Len(s) /\ s[i] \in JSONWhiteSpace THEN SkipJSONWS(s, i + 1) ELSE i

RECURSIVE ScanDigits(_, _)
ScanDigits(s, i) == IF i <= Len(s) /\ IsDigit(s[i]) THEN ScanDigits(s, i + 1) ELSE i

\* The number written by the digits s[i..j-1] (0 for an empty run), for runs
\* that stay below 2^31.
RECURSIVE DigitsValue(_, _, _)
DigitsValue(s, i, j) ==
    IF j <= i THEN 0 ELSE 10 * DigitsValue(s, i, j - 1) + DigitVal(s[j - 1])

\* The decimal digits of a natural number, most significant first.
RECURSIVE DigitsOf(_)
DigitsOf(n) ==
    IF n < 10 THEN <<DigitChars[n + 1]>>
    ELSE Append(DigitsOf(n \div 10), DigitChars[(n % 10) + 1])

RECURSIVE Zeros(_)
Zeros(n) == IF n <= 0 THEN <<>> ELSE <<"0">> \o Zeros(n - 1)

\* s has the characters of lit at position i.
HasAt(s, i, lit) ==
    /\ i + Len(lit) - 1 <= Len(s)
    /\ \A k \in 1..Len(lit) : s[i + k - 1] = lit[k]

(***************************************************************************)
(* Natural numbers of any size: sequences of limbs in base 10^4, least     *)
(* significant first, no zero limb at the top (zero is the empty sequence).*)
(***************************************************************************)
Base == 10000

\* The highest index in lo..hi of a limb that is not zero, or 0
RECURSIVE BigTop(_, _, _)
BigTop(x, lo, hi) ==
    IF lo > hi THEN 0
    ELSE IF lo = hi THEN (IF x[lo] # 0 THEN lo ELSE 0)
    ELSE The({IF up # 0 THEN up ELSE BigTop(x, lo, (lo + hi) \div 2) :
                up \in {BigTop(x, ((lo + hi) \div 2) + 1, hi)}})

BigTrim(x) == SubSeq(x, 1, BigTop(x, 1, Len(x)))

BigLimb(x, i) == IF i <= Len(x) THEN x[i] ELSE 0

\* Limbs lo..hi of x * c + carry and the carry out, for c below Base
RECURSIVE BigMulRange(_, _, _, _, _)
BigMulRange(x, c, lo, hi, carry) ==
    IF lo = hi
    THEN The({[limbs |-> <<p % Base>>, carry |-> p \div Base] : p \in {x[lo] * c + carry}})
    ELSE The({The({[limbs |-> l.limbs \o h.limbs, carry |-> h.carry] :
                     h \in {BigMulRange(x, c, ((lo + hi) \div 2) + 1, hi, l.carry)}}) :
                l \in {BigMulRange(x, c, lo, (lo + hi) \div 2, carry)}})

BigMulSmall(x, c) ==
    IF c = 0 \/ x = <<>> THEN <<>>
    ELSE The({IF p.carry = 0 THEN p.limbs ELSE Append(p.limbs, p.carry) :
                p \in {BigMulRange(x, c, 1, Len(x), 0)}})

\* Limbs lo..hi of x + y + carry and the carry out
RECURSIVE BigAddRange(_, _, _, _, _)
BigAddRange(x, y, lo, hi, carry) ==
    IF lo = hi
    THEN The({[limbs |-> <<p % Base>>, carry |-> p \div Base] :
                p \in {BigLimb(x, lo) + BigLimb(y, lo) + carry}})
    ELSE The({The({[limbs |-> l.limbs \o h.limbs, carry |-> h.carry] :
                     h \in {BigAddRange(x, y, ((lo + hi) \div 2) + 1, hi, l.carry)}}) :
                l \in {BigAddRange(x, y, lo, (lo + hi) \div 2, carry)}})

BigAdd(x, y) ==
    IF x = <<>> THEN y
    ELSE IF y = <<>> THEN x
    ELSE The({IF p.carry = 0 THEN p.limbs ELSE Append(p.limbs, p.carry) :
                p \in {BigAddRange(x, y, 1, IF Len(x) > Len(y) THEN Len(x) ELSE Len(y), 0)}})

\* Limbs lo..hi of x - y - borrow and the borrow out
RECURSIVE BigSubRange(_, _, _, _, _)
BigSubRange(x, y, lo, hi, borrow) ==
    IF lo = hi
    THEN The({[limbs |-> <<(p + Base) % Base>>, borrow |-> IF p < 0 THEN 1 ELSE 0] :
                p \in {x[lo] - BigLimb(y, lo) - borrow}})
    ELSE The({The({[limbs |-> l.limbs \o h.limbs, borrow |-> h.borrow] :
                     h \in {BigSubRange(x, y, ((lo + hi) \div 2) + 1, hi, l.borrow)}}) :
                l \in {BigSubRange(x, y, lo, (lo + hi) \div 2, borrow)}})

\* x - y for x >= y
BigSub(x, y) ==
    IF y = <<>> THEN x ELSE BigTrim(BigSubRange(x, y, 1, Len(x), 0).limbs)

\* -1, 0, 1 as limbs lo..hi of x are below, equal to, above those of y
RECURSIVE BigCmpRange(_, _, _, _)
BigCmpRange(x, y, lo, hi) ==
    IF lo = hi THEN (IF x[lo] < y[lo] THEN -1 ELSE IF x[lo] > y[lo] THEN 1 ELSE 0)
    ELSE The({IF up # 0 THEN up ELSE BigCmpRange(x, y, lo, (lo + hi) \div 2) :
                up \in {BigCmpRange(x, y, ((lo + hi) \div 2) + 1, hi)}})

\* -1, 0, 1 as x is less than, equal to, greater than y
BigCmp(x, y) ==
    IF Len(x) < Len(y) THEN -1
    ELSE IF Len(x) > Len(y) THEN 1
    ELSE IF Len(x) = 0 THEN 0
    ELSE BigCmpRange(x, y, 1, Len(x))

\* Four digits to a limb, from the last digit back
RECURSIVE BigFromTo(_, _, _)
BigFromTo(ds, j, acc) ==
    IF j < 1 THEN BigTrim(acc)
    ELSE BigFromTo(ds, j - 4, Append(acc, DigitsValue(ds, IF j - 3 < 1 THEN 1 ELSE j - 3, j + 1)))

\* The natural number written by the decimal digits ds
BigFromDigits(ds) == BigFromTo(ds, Len(ds), <<>>)

Pow10Small(n) == CASE n = 0 -> 1 [] n = 1 -> 10 [] n = 2 -> 100 [] n = 3 -> 1000

\* x * 10^n
BigMulPow10(x, n) ==
    IF x = <<>> THEN <<>>
    ELSE [i \in 1..(n \div 4) |-> 0] \o BigMulSmall(x, Pow10Small(n % 4))

RECURSIVE Pow2Small(_)
Pow2Small(n) == IF n = 0 THEN 1 ELSE 2 * Pow2Small(n - 1)

\* x * 2^n
RECURSIVE BigMulPow2(_, _)
BigMulPow2(x, n) ==
    IF n > 13 THEN The({BigMulPow2(y, n - (n \div 2)) : y \in {BigMulPow2(x, n \div 2)}})
    ELSE BigMulSmall(x, Pow2Small(n))

BigOne == <<1>>
BigIsOdd(x) == Len(x) > 0 /\ x[1] % 2 = 1

(***************************************************************************)
(* Reading a decimal as a double (round to nearest, ties to even) and      *)
(* printing a double with the fewest digits that read back as it.          *)
(***************************************************************************)
\* t doubled while it still fits under a: [t, k]
RECURSIVE Norm2(_, _, _)
Norm2(a, t, k) ==
    The({IF BigCmp(t2, a) <= 0 THEN Norm2(a, t2, k + 1) ELSE [t |-> t, k |-> k] :
           t2 \in {BigMulSmall(t, 2)}})

\* n more quotient bits of r / t after the bits f: [f, r]
RECURSIVE QuotientBits(_, _, _, _)
QuotientBits(r, t, n, f) ==
    IF n <= 0 THEN [f |-> f, r |-> r]
    ELSE IF n = 1
    THEN (IF BigCmp(r, t) >= 0
          THEN [f |-> BigAdd(BigMulSmall(f, 2), BigOne), r |-> BigMulSmall(BigSub(r, t), 2)]
          ELSE [f |-> BigMulSmall(f, 2), r |-> BigMulSmall(r, 2)])
    ELSE The({QuotientBits(h.r, t, n - (n \div 2), h.f) :
                h \in {QuotientBits(r, t, n \div 2, f)}})

\* With all the values at hand: the rounded significand f and exponent q
RoundedDouble(fr, t, k, nbits) ==
    LET c == BigCmp(fr.r, t)
        up == c > 0 \/ (c = 0 /\ BigIsOdd(fr.f))
        f == IF up THEN BigAdd(fr.f, BigOne) ELSE fr.f
        q == k - nbits + 1
        two53 == BigMulPow2(BigOne, 53)
    IN  IF f = <<>> THEN [cls |-> "zero", f |-> <<>>, q |-> 0]
        ELSE IF f = two53
             THEN (IF q + 1 > 971 THEN [cls |-> "Infinity", f |-> <<>>, q |-> 0]
                   ELSE [cls |-> "finite", f |-> BigMulPow2(BigOne, 52), q |-> q + 1])
        ELSE [cls |-> "finite", f |-> f, q |-> q]

BitsOfDouble(a, tk) ==
    LET nbits == IF tk.k >= -1022 THEN 53 ELSE tk.k + 1075
    IN  IF tk.k > 1023 THEN [cls |-> "Infinity", f |-> <<>>, q |-> 0]
        ELSE IF nbits < 0 THEN [cls |-> "zero", f |-> <<>>, q |-> 0]
        ELSE The({RoundedDouble(fr, tk.t, tk.k, nbits) :
                    fr \in {QuotientBits(a, tk.t, nbits, <<>>)}})

\* The double nearest to ds * 10^e (ds: decimal digits, first and last not 0):
\* [cls, f, q], the value being f * 2^q
ToDouble(ds, e) ==
    LET lead == Len(ds) + e - 1
        k0 == IF lead >= 0 THEN (lead * 3321) \div 1000
              ELSE -((((-lead) * 3322) + 999) \div 1000)
        a0 == BigMulPow10(BigFromDigits(ds), IF e > 0 THEN e ELSE 0)
        b0 == BigMulPow10(BigOne, IF e < 0 THEN -e ELSE 0)
        a == IF k0 < 0 THEN BigMulPow2(a0, -k0) ELSE a0
        t0 == IF k0 > 0 THEN BigMulPow2(b0, k0) ELSE b0
    IN  The({BitsOfDouble(a1, Norm2(a1, t1, k0)) : a1 \in {a}, t1 \in {t0}})

\* s multiplied by 10 while high (r + mp against s) is not below it: [s, k]
RECURSIVE Fixup(_, _, _, _, _)
Fixup(r, s, mp, k, even) ==
    IF BigCmp(BigAdd(r, mp), s) >= (IF even THEN 0 ELSE 1)
    THEN The({Fixup(r, s10, mp, k + 1, even) : s10 \in {BigMulSmall(s, 10)}})
    ELSE [s |-> s, k |-> k]

\* r divided by s for a quotient below 10: [d, r]
RECURSIVE DivSmall(_, _, _)
DivSmall(r, s, d) ==
    IF BigCmp(r, s) >= 0 THEN The({DivSmall(r2, s, d + 1) : r2 \in {BigSub(r, s)}})
    ELSE [d |-> d, r |-> r]

\* The last digit, or the next one and on: low and high say whether the
\* digits so far, ended by d or by d + 1, already read back as the double
RECURSIVE Generate(_, _, _, _, _, _)
GenerateStep(dr, s, mp, mm, even, acc) ==
    LET low == BigCmp(dr.r, mm) < (IF even THEN 1 ELSE 0)
        high == BigCmp(BigAdd(dr.r, mp), s) >= (IF even THEN 0 ELSE 1)
    IN  IF ~low /\ ~high THEN Generate(dr.r, s, mp, mm, even, Append(acc, DigitChars[dr.d + 1]))
        ELSE IF low /\ ~high THEN Append(acc, DigitChars[dr.d + 1])
        ELSE IF ~low /\ high THEN Append(acc, DigitChars[dr.d + 2])
        ELSE The({IF half < 0 \/ (half = 0 /\ dr.d % 2 = 0)
                  THEN Append(acc, DigitChars[dr.d + 1])
                  ELSE Append(acc, DigitChars[dr.d + 2]) :
                    half \in {BigCmp(BigMulSmall(dr.r, 2), s)}})

Generate(r, s, mp, mm, even, acc) ==
    The({GenerateStep(dr, s, mp10, mm10, even, acc) :
           dr \in {DivSmall(BigMulSmall(r, 10), s, 0)},
           mp10 \in {BigMulSmall(mp, 10)},
           mm10 \in {BigMulSmall(mm, 10)}})

ShortestFrom(r, sk, mp, mm, even) ==
    The({[ds |-> Generate(r, sk1.s, mp, mm, even, <<>>), k |-> sk1.k] : sk1 \in {sk}})

\* The fewest decimal digits that read back as the double f * 2^q, and the
\* exponent k of 0.d1d2... * 10^k; est is a power of ten below the value
Shortest(f, q, est) ==
    LET even == ~BigIsOdd(f)
        edge == f = BigMulPow2(BigOne, 52) /\ q > -1074
        w == IF edge THEN 2 ELSE 1
        r0 == IF q >= 0 THEN BigMulPow2(f, q + w) ELSE BigMulSmall(f, 2 * w)
        s0 == IF q >= 0 THEN BigMulSmall(BigOne, 2 * w) ELSE BigMulPow2(BigOne, w - q)
        mp0 == IF q >= 0 THEN BigMulPow2(BigOne, q + w - 1) ELSE BigMulSmall(BigOne, w)
        mm0 == IF q >= 0 THEN BigMulPow2(BigOne, q) ELSE BigOne
        r == IF est < 0 THEN BigMulPow10(r0, -est) ELSE r0
        s == IF est > 0 THEN BigMulPow10(s0, est) ELSE s0
        mp == IF est < 0 THEN BigMulPow10(mp0, -est) ELSE mp0
        mm == IF est < 0 THEN BigMulPow10(mm0, -est) ELSE mm0
    IN  The({ShortestFrom(r1, Fixup(r1, s1, mp1, est, even), mp1, mm1, even) :
               r1 \in {r}, s1 \in {s}, mp1 \in {mp}, mm1 \in {mm}})

(***************************************************************************)
(* Numbers: the value of a decimal literal, and Number::toString           *)
(***************************************************************************)
RECURSIVE TrailingZeros(_)
TrailingZeros(ds) ==
    IF Len(ds) > 0 /\ ds[Len(ds)] = "0" THEN 1 + TrailingZeros(SubSeq(ds, 1, Len(ds) - 1))
    ELSE 0

RECURSIVE LeadingZeros(_, _)
LeadingZeros(ds, i) == IF i <= Len(ds) /\ ds[i] = "0" THEN LeadingZeros(ds, i + 1) ELSE i - 1

\* The double nearest to ds * 10^e where the decimal has more than 15 digits
\* or lies at a limit of the range, by exact arithmetic
Rounded(neg, ds, e) ==
    The({IF b.cls = "zero" THEN Zero(neg)
         ELSE IF b.cls = "Infinity" THEN Infinity(neg)
         ELSE The({Finite(neg, sh.ds, sh.k - Len(sh.ds)) :
                     sh \in {Shortest(b.f, b.q, Len(ds) + e - 3)}}) :
           b \in {ToDouble(ds, e)}})

\* The double nearest to ds * 10^e, ds having neither leading nor trailing
\* zeros.  A decimal whose leading digit has an exponent above 308 is beyond
\* the largest double, one below -324 is under half the smallest; one of at
\* most 15 digits in the normal range is the shortest decimal of its double.
Nearest(neg, ds, e) ==
    IF ds = <<>> THEN Zero(neg)
    ELSE The({IF lead > 308 THEN Infinity(neg)
              ELSE IF lead < -324 THEN Zero(neg)
              ELSE IF Len(ds) <= 15 /\ -307 <= lead /\ lead <= 307 THEN Finite(neg, ds, e)
              ELSE Rounded(neg, ds, e) :
                lead \in {Len(ds) + e - 1}})

\* The number written by the digit run ds scaled by 10^e.
Decimal(neg, ds, e) ==
    The({Nearest(neg, SubSeq(ds, lz + 1, Len(ds) - tz), e + tz) :
           lz \in {LeadingZeros(ds, 1)}, tz \in {TrailingZeros(ds)}})

\* The double nearest to (-1)^neg * m * 10^e for a natural number m
MkNum(neg, m, e) == Decimal(neg, DigitsOf(m), e)

Int2Num(i) == IF i < 0 THEN MkNum(TRUE, -i, 0) ELSE MkNum(FALSE, i, 0)

\* Number::toString(x) in radix 10.
NumberToString(x) ==
    IF x.cls = "NaN" THEN <<"N", "a", "N">>
    ELSE IF x.cls = "Infinity"
    THEN (IF x.neg THEN <<"-">> ELSE <<>>) \o <<"I", "n", "f", "i", "n", "i", "t", "y">>
    ELSE IF x.ds = <<"0">> THEN <<"0">>
    ELSE LET ds == x.ds
             k == Len(ds)
             n == k + x.e
             sign == IF x.neg THEN <<"-">> ELSE <<>>
             ex == n - 1
             expo == <<"e">> \o (IF ex < 0 THEN <<"-">> ELSE <<"+">>)
                         \o DigitsOf(IF ex < 0 THEN -ex ELSE ex)
         IN  sign \o
             (IF k <= n /\ n <= 21 THEN ds \o Zeros(n - k)
              ELSE IF 0 < n /\ n <= 21
                   THEN SubSeq(ds, 1, n) \o <<".">> \o SubSeq(ds, n + 1, k)
              ELSE IF -6 < n /\ n <= 0 THEN <<"0", ".">> \o Zeros(-n) \o ds
              ELSE IF k = 1 THEN ds \o expo
              ELSE <<ds[1], ".">> \o SubSeq(ds, 2, k) \o expo)

(***************************************************************************)
(* String(value), the conversion the hook applies before it stores         *)
(***************************************************************************)
\* What String(value) yields in the place of a string when it throws
\* "TypeError: Cannot convert object to primitive value"
TypeError == <<"TypeError">>

RECURSIVE String(_)
RECURSIVE JoinItems(_, _)
\* Array.prototype.join(","): undefined and null elements print as "", any
\* other element as String(element), whose TypeError ends the join.
JoinItems(items, i) ==
    IF i > Len(items) THEN <<>>
    ELSE The({IF head = TypeError \/ rest = TypeError THEN TypeError
              ELSE (IF i > 1 THEN <<",">> ELSE <<>>) \o head \o rest :
                head \in {IF items[i].kind \in {"Undefined", "Null"} THEN <<>>
                          ELSE String(items[i])},
                rest \in {JoinItems(items, i + 1)}})

\* An object read from JSON takes toString and valueOf from Object.prototype
\* unless it has a key of that name, whose value is never a function: with an
\* own "toString" neither method yields a primitive.
String(v) ==
    CASE v.kind = "Undefined" -> <<"u", "n", "d", "e", "f", "i", "n", "e", "d">>
      [] v.kind = "Null" -> <<"n", "u", "l", "l">>
      [] v.kind = "Boolean" ->
            IF v.b THEN <<"t", "r", "u", "e">> ELSE <<"f", "a", "l", "s", "e">>
      [] v.kind = "Number" -> NumberToString(v)
      [] v.kind = "String" -> v.s
      [] v.kind = "Array" -> JoinItems(v.items, 1)
      [] v.kind = "Object" ->
            IF \E j \in 1..Len(v.keys) : v.keys[j] = <<"t", "o", "S", "t", "r", "i", "n", "g">>
            THEN TypeError
            ELSE <<"[", "o", "b", "j", "e", "c", "t", " ", "O", "b", "j", "e", "c", "t", "]">>

(***************************************************************************)
(* parseFloat: the longest prefix that is a StrDecimalLiteral              *)
(***************************************************************************)
\* An exponent part at position i: [ok, pos, neg, ds], its sign and its digits
\* without leading zeros; absent when no digit follows.
ExponentPart(s, i) ==
    IF i <= Len(s) /\ s[i] \in {"e", "E"}
    THEN LET signed == i + 1 <= Len(s) /\ s[i + 1] \in {"+", "-"}
             j == IF signed THEN i + 2 ELSE i + 1
             k == ScanDigits(s, j)
         IN  IF k > j
             THEN [ok |-> TRUE, pos |-> k, neg |-> signed /\ s[i + 1] = "-",
                   ds |-> SubSeq(s, j + LeadingZeros(SubSeq(s, j, k - 1), 1), k - 1)]
             ELSE [ok |-> FALSE, pos |-> i, neg |-> FALSE, ds |-> <<>>]
    ELSE [ok |-> FALSE, pos |-> i, neg |-> FALSE, ds |-> <<>>]

\* The exponent written by the digits ds is larger than Len(s) + 400, compared
\* as natural numbers of any size.  A digit of s stands at most Len(s) places
\* from its point, and the doubles end at 10^308 and at 10^-324: with such an
\* exponent every digit of s but 0 is worth more than any double, or less than
\* the smallest.
BeyondReach(s, ds) ==
    BigCmp(BigFromDigits(ds), BigFromDigits(DigitsOf(Len(s) + 400))) > 0

\* The number written in s by the digit run digits, nFrac of them after the
\* point, and the exponent part ex: digits * 10^(exponent - nFrac)
Scaled(s, neg, digits, nFrac, ex) ==
    IF ~ex.ok THEN Decimal(neg, digits, -nFrac)
    ELSE IF BeyondReach(s, ex.ds)
    THEN IF ex.neg \/ LeadingZeros(digits, 1) = Len(digits) THEN Zero(neg)
         ELSE Infinity(neg)
    ELSE The({Decimal(neg, digits, (IF ex.neg THEN -v ELSE v) - nFrac) :
                v \in {DigitsValue(ex.ds, 1, Len(ex.ds) + 1)}})

parseFloat(s) ==
    LET i0 == SkipWS(s, 1)
        signed == i0 <= Len(s) /\ s[i0] \in {"+", "-"}
        neg == signed /\ s[i0] = "-"
        i1 == IF signed THEN i0 + 1 ELSE i0
        intEnd == ScanDigits(s, i1)
        dot == intEnd <= Len(s) /\ s[intEnd] = "."
        fracEnd == IF dot THEN ScanDigits(s, intEnd + 1) ELSE intEnd
        nFrac == IF dot THEN fracEnd - (intEnd + 1) ELSE 0
        nInt == intEnd - i1
        ex == ExponentPart(s, fracEnd)
        digits == SubSeq(s, i1, intEnd - 1)
                    \o (IF dot THEN SubSeq(s, intEnd + 1, fracEnd - 1) ELSE <<>>)
    IN  IF HasAt(s, i1, <<"I", "n", "f", "i", "n", "i", "t", "y">>) THEN Infinity(neg)
        ELSE IF nInt + nFrac = 0 THEN NaN
        ELSE Scaled(s, neg, digits, nFrac, ex)

\* Number.isNaN on a number
isNaN(x) == x.cls = "NaN"

(***************************************************************************)
(* JSON.parse.  A parse step yields [ok, pos, val]: whether it matched,    *)
(* the position after the match, and the value read.                       *)
(***************************************************************************)
Fail == [ok |-> FALSE, pos |-> 0, val |-> Undefined]
Ok(pos, val) == [ok |-> TRUE, pos |-> pos, val |-> val]

\* JSON number: -? (0 | [1-9][0-9]*) (. [0-9]+)? ([eE] [+-]? [0-9]+)?
JSONNumber(s, i) ==
    LET neg == i <= Len(s) /\ s[i] = "-"
        i1 == IF neg THEN i + 1 ELSE i
        intEnd == IF i1 <= Len(s) /\ s[i1] = "0" THEN i1 + 1 ELSE ScanDigits(s, i1)
        dot == intEnd <= Len(s) /\ s[intEnd] = "."
        fracEnd == IF dot THEN ScanDigits(s, intEnd + 1) ELSE intEnd
        nFrac == IF dot THEN fracEnd - (intEnd + 1) ELSE 0
        isExp == fracEnd <= Len(s) /\ s[fracEnd] \in {"e", "E"}
        ex == ExponentPart(s, fracEnd)
        digits == SubSeq(s, i1, intEnd - 1)
                    \o (IF dot THEN SubSeq(s, intEnd + 1, fracEnd - 1) ELSE <<>>)
    IN  IF intEnd = i1 \/ (dot /\ nFrac = 0) \/ (isExp /\ ~ex.ok) THEN Fail
        ELSE Ok(IF ex.ok THEN ex.pos ELSE fracEnd,
                Scaled(s, neg, digits, nFrac, ex))

\* The character an escape \c stands for; <<>> when \c is no escape of one
\* character (\u takes four more, see UnicodeEscape).
Unescape(c) ==
    CASE c = "\"" -> <<"\"">>
      [] c = "\\" -> <<"\\">>
      [] c = "/" -> <<"/">>
      [] c = "b" -> <<CodeUnitChar(8)>>
      [] c = "f" -> <<"\f">>
      [] c = "n" -> <<"\n">>
      [] c = "r" -> <<"\r">>
      [] c = "t" -> <<"\t">>
      [] OTHER -> <<>>

\* The character the four hexadecimal digits s[i..i+3] stand for; <<>> when
\* they are not four hexadecimal digits.
UnicodeEscape(s, i) ==
    IF i + 3 <= Len(s) /\ \A k \in 0..3 : HexVal(s[i + k]) >= 0
    THEN <<CodeUnitChar(4096 * HexVal(s[i]) + 256 * HexVal(s[i + 1])
                        + 16 * HexVal(s[i + 2]) + HexVal(s[i + 3]))>>
    ELSE <<>>

\* The rest of a JSON string whose opening quote precedes position i.
RECURSIVE JSONString(_, _, _)
JSONString(s, i, acc) ==
    IF i > Len(s) THEN Fail
    ELSE IF s[i] = "\"" THEN Ok(i + 1, Str(acc))
    ELSE IF s[i] \in ControlChars THEN Fail
    ELSE IF s[i] = "\\"
         THEN IF i + 1 > Len(s) THEN Fail
              ELSE IF s[i + 1] = "u"
                   THEN (IF UnicodeEscape(s, i + 2) = <<>> THEN Fail
                         ELSE JSONString(s, i + 6, acc \o UnicodeEscape(s, i + 2)))
              ELSE IF Unescape(s[i + 1]) = <<>> THEN Fail
              ELSE JSONString(s, i + 2, acc \o Unescape(s[i + 1]))
    ELSE JSONString(s, i + 1, Append(acc, s[i]))

\* A key that is an array index: the canonical decimal of an integer in
\* 0..2^32-2
IsArrayIndex(k) ==
    /\ Len(k) > 0
    /\ \A j \in 1..Len(k) : IsDigit(k[j])
    /\ (k[1] # "0" \/ Len(k) = 1)
    /\ \/ Len(k) < 10
       \/ /\ Len(k) = 10
          /\ \E j \in 1..10 :
                /\ DigitVal(k[j]) < DigitVal(<<"4", "2", "9", "4", "9", "6", "7", "2", "9", "5">>[j])
                /\ \A h \in 1..(j - 1) :
                      k[h] = <<"4", "2", "9", "4", "9", "6", "7", "2", "9", "5">>[h]

\* Array indices a and b: a is the smaller
IndexLess(a, b) ==
    \/ Len(a) < Len(b)
    \/ /\ Len(a) = Len(b)
       /\ \E j \in 1..Len(a) :
             /\ DigitVal(a[j]) < DigitVal(b[j])
             /\ \A h \in 1..(j - 1) : a[h] = b[h]

\* seq with x put in after position n
InsertAfter(seq, n, x) == SubSeq(seq, 1, n) \o <<x>> \o SubSeq(seq, n + 1, Len(seq))

\* Object members are kept in the order the keys are listed in: array indices
\* first, ascending, then every other key in the order of its first
\* occurrence.  A key that occurs again keeps its place and takes the new value.
PutMember(o, k, v) ==
    IF \E j \in 1..Len(o.keys) : o.keys[j] = k
    THEN LET j == CHOOSE j \in 1..Len(o.keys) : o.keys[j] = k
         IN  Obj(o.keys, [o.items EXCEPT ![j] = v])
    ELSE IF IsArrayIndex(k)
    THEN LET n == Cardinality({j \in 1..Len(o.keys) :
                                 IsArrayIndex(o.keys[j]) /\ IndexLess(o.keys[j], k)})
         IN  Obj(InsertAfter(o.keys, n, k), InsertAfter(o.items, n, v))
    ELSE Obj(Append(o.keys, k), Append(o.items, v))

RECURSIVE JSONValue(_, _)
RECURSIVE JSONElements(_, _, _)
RECURSIVE JSONMembers(_, _, _)

\* The elements of an array after "[" or ",": value (, value)* ]
JSONElements(s, i, acc) ==
    LET v == JSONValue(s, i)
        j == SkipJSONWS(s, v.pos)
    IN  IF ~v.ok \/ j > Len(s) THEN Fail
        ELSE IF s[j] = "," THEN JSONElements(s, j + 1, Append(acc, v.val))
        ELSE IF s[j] = "]" THEN Ok(j + 1, Arr(Append(acc, v.val)))
        ELSE Fail

\* The members of an object after "{" or ",": string : value (, string : value)* }
JSONMembers(s, i, acc) ==
    LET q == SkipJSONWS(s, i)
        k == IF q <= Len(s) /\ s[q] = "\"" THEN JSONString(s, q + 1, <<>>) ELSE Fail
        c == SkipJSONWS(s, k.pos)
        v == IF k.ok /\ c <= Len(s) /\ s[c] = ":" THEN JSONValue(s, c + 1) ELSE Fail
        j == SkipJSONWS(s, v.pos)
    IN  IF ~v.ok \/ j > Len(s) THEN Fail
        ELSE IF s[j] = "," THEN JSONMembers(s, j + 1, PutMember(acc, k.val.s, v.val))
        ELSE IF s[j] = "}" THEN Ok(j + 1, PutMember(acc, k.val.s, v.val))
        ELSE Fail

JSONValue(s, i) ==
    LET j == SkipJSONWS(s, i)
    IN  IF j > Len(s) THEN Fail
        ELSE IF s[j] = "{"
             THEN LET k == SkipJSONWS(s, j + 1)
                  IN  IF k <= Len(s) /\ s[k] = "}" THEN Ok(k + 1, Obj(<<>>, <<>>))
                      ELSE JSONMembers(s, j + 1, Obj(<<>>, <<>>))
        ELSE IF s[j] = "["
             THEN LET k == SkipJSONWS(s, j + 1)
                  IN  IF k <= Len(s) /\ s[k] = "]" THEN Ok(k + 1, Arr(<<>>))
                      ELSE JSONElements(s, j + 1, <<>>)
        ELSE IF s[j] = "\"" THEN JSONString(s, j + 1, <<>>)
        ELSE IF s[j] = "-" \/ IsDigit(s[j]) THEN JSONNumber(s, j)
        ELSE IF HasAt(s, j, <<"t", "r", "u", "e">>) THEN Ok(j + 4, Bool(TRUE))
        ELSE IF HasAt(s, j, <<"f", "a", "l", "s", "e">>) THEN Ok(j + 5, Bool(FALSE))
        ELSE IF HasAt(s, j, <<"n", "u", "l", "l">>) THEN Ok(j + 4, Null)
        ELSE Fail

\* JSON.parse(s): [ok, val]; ok is FALSE where JSON.parse throws SyntaxError.
JSONparse(s) ==
    LET v == JSONValue(s, 1)
    IN  IF v.ok /\ SkipJSONWS(s, v.pos) = Len(s) + 1
        THEN [ok |-> TRUE, val |-> v.val]
        ELSE [ok |-> FALSE, val |-> Undefined]

(***************************************************************************)
(* parseString, the coercion of a stored string to a typed value           *)
(***************************************************************************)
\* parseString with the null test of line 89 left out
parseString_NoNullTest(input) ==
    LET parsedObject == JSONparse(input)
        parsedNumber == parseFloat(input)
    IN  IF parsedObject.ok /\ (IsObject(parsedObject.val) \/ parsedObject.val = Null)
        THEN parsedObject.val
        ELSE IF ~isNaN(parsedNumber) THEN parsedNumber
        ELSE IF input = <<"t", "r", "u", "e">> \/ input = <<"f", "a", "l", "s", "e">>
             THEN Bool(input = <<"t", "r", "u", "e">>)
        ELSE Str(input)

\* parseString with parseInt(input, 10) in the place of parseFloat(input)
parseString_ParseInt(input) ==
    LET parsedObject == JSONparse(input)
        i0 == SkipWS(input, 1)
        signed == i0 <= Len(input) /\ input[i0] \in {"+", "-"}
        i1 == IF signed THEN i0 + 1 ELSE i0
        intEnd == ScanDigits(input, i1)
        parsedNumber == IF intEnd = i1 THEN NaN
                        ELSE Decimal(signed /\ input[i0] = "-", SubSeq(input, i1, intEnd - 1), 0)
    IN  IF parsedObject.ok /\ IsObject(parsedObject.val) THEN parsedObject.val
        ELSE IF ~isNaN(parsedNumber) THEN parsedNumber
        ELSE IF input = <<"t", "r", "u", "e">> \/ input = <<"f", "a", "l", "s", "e">>
             THEN Bool(input = <<"t", "r", "u", "e">>)
        ELSE Str(input)

\* parseString without the try/catch around JSON.parse: the SyntaxError escapes
parseString_NoCatch(input) ==
    LET parsedObject == JSONparse(input)
        parsedNumber == parseFloat(input)
    IN  IF ~parsedObject.ok THEN [kind |-> "SyntaxError"]
        ELSE IF IsObject(parsedObject.val) THEN parsedObject.val
        ELSE IF ~isNaN(parsedNumber) THEN parsedNumber
        ELSE IF input = <<"t", "r", "u", "e">> \/ input = <<"f", "a", "l", "s", "e">>
             THEN Bool(input = <<"t", "r", "u", "e">>)
        ELSE Str(input)

parseString(input) ==
    LET parsedObject == JSONparse(input)
        parsedNumber == parseFloat(input)
    IN  IF parsedObject.ok /\ IsObject(parsedObject.val) THEN parsedObject.val
        ELSE IF ~isNaN(parsedNumber) THEN parsedNumber
        ELSE IF input = <<"t", "r", "u", "e">> \/ input = <<"f", "a", "l", "s", "e">>
             THEN Bool(input = <<"t", "r", "u", "e">>)
        ELSE Str(input)

(***************************************************************************)
(* The hook and its host.                                                  *)
(*                                                                         *)
(* A cell is one component instance that calls useStorage; each cell is    *)
(* the root of a tree of its own.  React is not part of the repository,    *)
(* nor is the component that calls the hook.  The model drives the hook as *)
(* React does: the hook body is called on every render with the            *)
(* configuration of that render; the effect of a render that returned is   *)
(* run before the cell is rendered again or unmounted, while the setter, a *)
(* plain closure, may be called before it; an error that leaves a render   *)
(* or an effect unmounts the tree, there being no error boundary           *)
(* (README.md, ReactDOM.render(<Root />, ...)).                            *)
(*                                                                         *)
(* Two kinds of calling component are modelled.  One calls the hook as the *)
(* README's Root does: the error of the getter leaves the render, React    *)
(* discards the render with its hook state, runs none of its effects and   *)
(* unmounts the tree.  As the useState slot of a new cell is undefined and *)
(* the getter compares it with a string, the first render of every cell    *)
(* throws, so a cell of this kind never gets to return.  The other kind    *)
(* wraps its call of the hook in try/catch and renders nothing when it     *)
(* threw: the render returns to React, which keeps the hook state the      *)
(* statements before the throw left behind (the useEffect slot with its    *)
(* effect scheduled, the useMemo slot as it was) and runs the effect.      *)
(***************************************************************************)
VARIABLES
    catches,    \* whether the calling components catch an error thrown by the hook
    store,      \* localStorage: key -> Null (absent) or a string
    raw,        \* cell -> the useState slot "raw": Undefined or a string
    memo,       \* cell -> the useMemo slot of "getter": its deps and value
    effect,     \* cell -> the useEffect slot: its deps, and whether a run is due
    ret,        \* cell -> what the last call of the hook in a render React kept did:
                \*         threw (and was caught), or returned [getter, setter]
    ctx,        \* the value StorageContext currently provides
    seen,       \* consumer -> what useStorageContext returned at its last render
    last,       \* history: the operation that led to this state
    wrote,      \* history: cell -> the value it last stored (by a write, or by seeding an
                \*          absent key), while nothing has touched the key since
    inited,     \* history: key -> an initialize ran on it and no outside write followed
    kept,       \* cell -> the setter closure its component keeps beyond the render that
                \*         returned it (in a timer, a subscription), and whether the mount
                \*         that returned it is still there
    runs,       \* history: cell -> the key of its last initialize and how many times (up
                \*          to MaxRuns) it ran on that key since the cell was given the key
    pcP, pIn, pStr, pOut   \* the coercion harness: stage, value, String(value), parseString of it

hookVars == <<catches, store, raw, memo, effect, ret, ctx, seen, kept, last, wrote, inited, runs>>
pureVars == <<pcP, pIn, pStr, pOut>>
vars == <<catches, store, raw, memo, effect, ret, ctx, seen, kept, last, wrote, inited, runs, pcP, pIn, pStr, pOut>>

MaxRuns == 2

Root == "root"
Solo == "solo"
Cells == {Root, Solo}
Keys == {"k1", "k2"}
Consumers == {"c1", "c2"}

\* The README's application state:
\* { score: 0, level: 1, userSettings: { theme: "light" } }
AppState ==
    Obj(<< <<"s", "c", "o", "r", "e">>, <<"l", "e", "v", "e", "l">>,
           <<"u", "s", "e", "r", "S", "e", "t", "t", "i", "n", "g", "s">> >>,
        << Int2Num(0), Int2Num(1),
           Obj(<< <<"t", "h", "e", "m", "e">> >>, << Str(<<"l", "i", "g", "h", "t">>) >>) >>)

\* A value String() throws on: { toString: 1 }
Unprintable == Obj(<< <<"t", "o", "S", "t", "r", "i", "n", "g">> >>, << Int2Num(1) >>)

\* Values handed to the setter, default values handed to the hook (Undefined:
\* no default given), and strings another script may leave in localStorage.
WriteValues == {Str(<<>>), Int2Num(1), AppState, Unprintable}
DefaultValues == {Undefined, Int2Num(1), AppState}
ExternalStrings == {<<>>, <<"1">>}

\* A composite default is a reference: an object literal in the component body
\* is a new reference on every render, a module constant is the same one.
Refs == {1, 2}
Configs ==
    {[name |-> k, defaultValue |-> d, ref |-> 0] : k \in Keys, d \in {v \in DefaultValues : ~IsObject(v)}}
    \cup {[name |-> k, defaultValue |-> d, ref |-> r] :
            k \in Keys, d \in {v \in DefaultValues : IsObject(v)}, r \in Refs}

\* Object.is on primitives (numbers are compared with their sign and NaN class)
ObjectIs(a, b) == a = b

\* Object.is on a dependency that may be a reference
DepIs(a, ra, b, rb) == IF IsObject(a) /\ IsObject(b) THEN ra = rb ELSE ObjectIs(a, b)

\* a ?? b
Nullish(a, b) == IF a.kind \in {"Undefined", "Null"} THEN b ELSE a

\* if (v) on null or a string
Truthy(v) == v.kind = "String" /\ Len(v.s) > 0

\* localStorage.getItem / setItem
getItem(st, name) == st[name]
setItem(st, name, s) == [st EXCEPT ![name] = Str(s)]

NoMemo == [has |-> FALSE, raw |-> Undefined, name |-> "", value |-> Undefined]
NoEffect == [has |-> FALSE, name |-> "", defaultValue |-> Undefined, ref |-> 0, pending |-> FALSE]
NoSetter == [cell |-> "", name |-> ""]
NoRet == [status |-> "none", getter |-> Undefined, setter |-> NoSetter]
Threw == [status |-> "threw", getter |-> Undefined, setter |-> NoSetter]
Returned(g, s) == [status |-> "returned", getter |-> g, setter |-> s]

\* createContext([]): the default value of StorageContext
Placeholder == [provided |-> FALSE, getter |-> Undefined, setter |-> NoSetter]
NotRendered == [provided |-> FALSE, getter |-> Undefined, setter |-> [cell |-> "", name |-> "-"]]

NoWrite == [has |-> FALSE, name |-> "", value |-> Undefined, by |-> ""]
NoOp == [op |-> "none", cell |-> "", name |-> "", value |-> Undefined,
         persisted |-> Null, cached |-> Undefined, after |-> NoWrite, again |-> FALSE,
         prev |-> "", threw |-> FALSE, current |-> FALSE]
NoRuns == [name |-> "", n |-> 0]
NoKept == [has |-> FALSE, name |-> "", live |-> FALSE]

(***************************************************************************)
(* The three pieces of useStorage                                          *)
(***************************************************************************)
\* What a callback leaves when String() threw in it: the store as it was, and
\* nothing handed to setRaw
Thrown(st) == [threw |-> TRUE, store |-> st, raw |-> Undefined]

\* The effect callback without its localStorage.setItem
initialize_NoSetItem(st, name, defaultValue) ==
    LET currVal == getItem(st, name)
    IN  IF Truthy(currVal) THEN [threw |-> FALSE, store |-> st, raw |-> currVal]
        ELSE IF String(defaultValue) = TypeError THEN Thrown(st)
        ELSE [threw |-> FALSE, store |-> st, raw |-> Str(String(defaultValue))]

\* The effect callback: adopt the stored string, or seed it from the default.
\* Yields whether it threw, the store after it and the string handed to setRaw.
initialize(st, name, defaultValue) ==
    LET currVal == getItem(st, name)
        rawDefault == Nullish(Str(String(defaultValue)), Str(<<>>))
    IN  IF Truthy(currVal) THEN [threw |-> FALSE, store |-> st, raw |-> currVal]
        ELSE IF String(defaultValue) = TypeError THEN Thrown(st)
        ELSE [threw |-> FALSE, store |-> setItem(st, name, rawDefault.s), raw |-> rawDefault]

\* The factory of the memoized getter: throws on a mismatch, else coerces.
getter(st, r, name) ==
    LET rawLS == Nullish(getItem(st, name), Str(<<>>))
    IN  IF ~ObjectIs(r, rawLS) THEN [threw |-> TRUE, value |-> Undefined]
        ELSE [threw |-> FALSE, value |-> parseString(rawLS.s)]

\* The setter storing its string under every key
setter_EveryKey(st, name, value) ==
    LET rawValue == String(value)
    IN  IF rawValue = TypeError THEN Thrown(st)
        ELSE [threw |-> FALSE, store |-> [k \in DOMAIN st |-> Str(rawValue)],
              raw |-> Str(rawValue)]

\* The setter without its localStorage.setItem
setter_NoSetItem(st, name, value) ==
    LET rawValue == String(value)
    IN  IF rawValue = TypeError THEN Thrown(st)
        ELSE [threw |-> FALSE, store |-> st, raw |-> Str(rawValue)]

\* The setter: store String(value) and hand the same string to setRaw; when
\* String(value) throws, neither happens.
setter(st, name, value) ==
    LET rawValue == String(value)
    IN  IF rawValue = TypeError THEN Thrown(st)
        ELSE [threw |-> FALSE, store |-> setItem(st, name, rawValue), raw |-> Str(rawValue)]

\* useEffect(..., [name, defaultValue]): the slot after a render with config cfg
useEffect(slot, cfg) ==
    IF ~slot.has \/ slot.name # cfg.name
         \/ ~DepIs(slot.defaultValue, slot.ref, cfg.defaultValue, cfg.ref)
    THEN [has |-> TRUE, name |-> cfg.name, defaultValue |-> cfg.defaultValue,
          ref |-> cfg.ref, pending |-> TRUE]
    ELSE slot

\* The memo slot once the factory ran with outcome g: a throw leaves it as it was
memoize(slot, r, name, g) ==
    IF g.threw THEN [threw |-> TRUE, slot |-> slot]
    ELSE [threw |-> FALSE,
          slot |-> [has |-> TRUE, raw |-> r, name |-> name, value |-> g.value]]

\* useMemo(..., [raw, name]): [threw, slot]; the factory runs when a dep changed
useMemo(slot, st, r, name) ==
    IF ~slot.has \/ ~ObjectIs(slot.raw, r) \/ slot.name # name
    THEN memoize(slot, r, name, getter(st, r, name))
    ELSE [threw |-> FALSE, slot |-> slot]

\* What a call of the hook leaves: the effect slot eff, the outcome m of useMemo,
\* and the pair returned unless the getter threw
hookResult(c, name, eff, m) ==
    [effect |-> eff, memo |-> m.slot,
     ret |-> IF m.threw THEN Threw
             ELSE Returned(m.slot.value, [cell |-> c, name |-> name])]

\* One call of useStorage(config) by cell c: the slots after it and its outcome
useStorage(c, cfg) ==
    hookResult(c, cfg.name, useEffect(effect[c], cfg),
               useMemo(memo[c], store, raw[c], cfg.name))

(***************************************************************************)
(* StorageProvider and useStorageContext                                   *)
(***************************************************************************)
\* <StorageContext.Provider value={[getter, setter]}>
StorageProvider(g, s) == [provided |-> TRUE, getter |-> g, setter |-> s]

\* useStorageContext failing where no provider feeds the context
useStorageContext_FailsUnprovided(context) ==
    IF context.provided THEN context
    ELSE [provided |-> FALSE, getter |-> Undefined, setter |-> [cell |-> "", name |-> "fault"]]

\* useContext(StorageContext)
useStorageContext(context) == context

(***************************************************************************)
(* Operations                                                              *)
(***************************************************************************)
Touch(w, name, but) ==
    [c \in Cells |-> IF c # but /\ w[c].has /\ w[c].name = name THEN NoWrite ELSE w[c]]

\* History: what a render of cell c with configuration cfg leaves in last,
\* but for the outcome of the call (threw)
RenderRecord(c, cfg) ==
    [op |-> "render", cell |-> c, name |-> cfg.name, value |-> cfg.defaultValue,
     persisted |-> store[cfg.name], cached |-> raw[c],
     after |-> IF wrote[c].has /\ wrote[c].name = cfg.name THEN wrote[c] ELSE NoWrite,
     again |-> memo[c].has,
     prev |-> IF effect[c].has THEN effect[c].name ELSE "",
     threw |-> FALSE, current |-> FALSE]

\* React unmounts the tree of cell c: the hook state of the cell is discarded,
\* localStorage stays.  With the root cell its StorageProvider and the
\* consumers below it unmount too, and the context is back to its default
\* value.  A setter closure that was kept outlives the mount it came from.
Discard(c) ==
    /\ kept' = [kept EXCEPT ![c].live = FALSE]
    /\ raw' = [raw EXCEPT ![c] = Undefined]
    /\ memo' = [memo EXCEPT ![c] = NoMemo]
    /\ effect' = [effect EXCEPT ![c] = NoEffect]
    /\ ret' = [ret EXCEPT ![c] = NoRet]
    /\ IF c = Root
       THEN /\ ctx' = Placeholder
            /\ seen' = [j \in Consumers |-> NotRendered]
       ELSE UNCHANGED <<ctx, seen>>
    /\ wrote' = [wrote EXCEPT ![c] = NoWrite]
    /\ runs' = [runs EXCEPT ![c] = NoRuns]

\* A render of cell c with configuration cfg.  The root cell is the README's
\* Root component: it wraps its children in a StorageProvider fed with the
\* pair the hook returned, and the consumers below re-render with it.  When
\* the hook throws and the component does not catch, the render is discarded
\* and the tree unmounted: no effect of it is left to run.  When the component
\* catches, it renders no provider and no consumer.
Render(c, cfg) ==
    /\ ~effect[c].pending
    /\ \E h \in {useStorage(c, cfg)} :
           /\ last' = [RenderRecord(c, cfg) EXCEPT !.threw = (h.ret.status = "threw")]
           /\ IF h.ret.status = "threw" /\ ~catches
              THEN Discard(c)
              ELSE /\ effect' = [effect EXCEPT ![c] = h.effect]
                   /\ memo' = [memo EXCEPT ![c] = h.memo]
                   /\ ret' = [ret EXCEPT ![c] = h.ret]
                   /\ IF c # Root THEN UNCHANGED <<ctx, seen>>
                      ELSE IF h.ret.status = "returned"
                      THEN /\ ctx' = StorageProvider(h.ret.getter, h.ret.setter)
                           /\ seen' = [j \in Consumers |-> useStorageContext(ctx')]
                      ELSE /\ ctx' = Placeholder
                           /\ seen' = [j \in Consumers |-> NotRendered]
                   /\ wrote' = [wrote EXCEPT ![c] = NoWrite]
                   /\ runs' = [runs EXCEPT ![c] =
                                  IF runs[c].name = cfg.name THEN runs[c] ELSE NoRuns]
                   /\ UNCHANGED <<raw, kept>>
    /\ UNCHANGED <<store, inited>>
    /\ UNCHANGED <<catches, pureVars>>

\* The effect a render of cell c scheduled, with the name and default of that
\* render.  When String(defaultValue) throws in it the error leaves the
\* callback, which has changed nothing, and React unmounts the tree.  An
\* effect that overwrites the empty string the cell itself wrote is no
\* interference from outside: the record of the write stays.
RunEffect(c) ==
    /\ effect[c].pending
    /\ \E name \in {effect[c].name} :
       \E r \in {initialize(store, name, effect[c].defaultValue)} :
           /\ store' = r.store
           /\ last' = [op |-> IF r.threw THEN "effectThrew" ELSE "effect",
                       cell |-> c, name |-> name,
                       value |-> effect[c].defaultValue, persisted |-> store[name],
                       cached |-> raw[c], after |-> NoWrite, again |-> inited[name],
                       prev |-> runs[c].name, threw |-> r.threw, current |-> FALSE]
           /\ IF r.threw
              THEN /\ Discard(c)
                   /\ UNCHANGED inited
              ELSE /\ raw' = [raw EXCEPT ![c] = r.raw]
                   /\ wrote' = IF r.store = store THEN wrote
                               ELSE [Touch(wrote, name, c) EXCEPT ![c] =
                                       IF store[name] = Null
                                       THEN [has |-> TRUE, name |-> name,
                                             value |-> effect[c].defaultValue,
                                             by |-> "init"]
                                       ELSE IF wrote[c].name = name /\ wrote[c].by # "init"
                                       THEN wrote[c]
                                       ELSE NoWrite]
                   /\ inited' = [inited EXCEPT ![name] = TRUE]
                   /\ runs' = [runs EXCEPT ![c] =
                                  [name |-> name,
                                   n |-> IF runs[c].name # name THEN 1
                                         ELSE IF runs[c].n < MaxRuns THEN runs[c].n + 1
                                         ELSE MaxRuns]]
                   /\ effect' = [effect EXCEPT ![c].pending = FALSE]
                   /\ UNCHANGED <<memo, ret, ctx, seen, kept>>
    /\ UNCHANGED <<catches, pureVars>>

\* The setter s is the one of the key cell s.cell has now
Current(s) == effect[s.cell].has /\ effect[s.cell].name = s.name

\* A call, by component or consumer "by", of the setter s (a closure of some
\* render of cell s.cell) with value v, whether or not the effect of that
\* render has run yet; live: the mount that returned s is still there.
\* localStorage.setItem runs in every call; setRaw is the dispatcher of the
\* mount that returned s, and React drops its update once that mount is gone.
\* raw is the string useState returns to the next call of the hook body:
\* React applies the queued update before that call, and nothing but the hook
\* body reads the slot.  A call in which String(v) throws changes nothing.
CallSetter(s, live, v, by) ==
    /\ s.cell \in Cells
    /\ \E r \in {setter(store, s.name, v)} :
           /\ store' = r.store
           /\ raw' = IF r.threw \/ ~live THEN raw ELSE [raw EXCEPT ![s.cell] = r.raw]
           /\ last' = [op |-> IF r.threw THEN "writeThrew" ELSE "write",
                       cell |-> s.cell, name |-> s.name, value |-> v,
                       persisted |-> store[s.name], cached |-> raw[s.cell],
                       after |-> NoWrite, again |-> FALSE, prev |-> "",
                       threw |-> r.threw, current |-> live /\ Current(s)]
           /\ wrote' = IF r.threw THEN wrote
                       ELSE IF ~live THEN Touch(wrote, s.name, "")
                       ELSE [Touch(wrote, s.name, s.cell) EXCEPT
                               ![s.cell] = [has |-> TRUE, name |-> s.name, value |-> v,
                                            by |-> IF Current(s) THEN by ELSE "late"]]
    /\ UNCHANGED <<memo, effect, ret, ctx, seen, kept, inited, runs>>
    /\ UNCHANGED <<catches, pureVars>>

\* The component of cell c calls the setter its last render returned
Write(c, v) ==
    /\ ret[c].status = "returned"
    /\ CallSetter(ret[c].setter, TRUE, v, c)

\* The component of cell c keeps the setter its last render returned
Keep(c) ==
    /\ ret[c].status = "returned"
    /\ kept[c] # [has |-> TRUE, name |-> ret[c].setter.name, live |-> TRUE]
    /\ kept' = [kept EXCEPT ![c] = [has |-> TRUE, name |-> ret[c].setter.name,
                                     live |-> TRUE]]
    /\ last' = [NoOp EXCEPT !.op = "keep", !.cell = c, !.name = ret[c].setter.name]
    /\ UNCHANGED <<store, raw, memo, effect, ret, ctx, seen, wrote, inited, runs>>
    /\ UNCHANGED <<catches, pureVars>>

\* The setter the component of cell c kept is called, after any number of
\* renders of the cell, or after its mount is gone
LateWrite(c, v) ==
    /\ kept[c].has
    /\ CallSetter([cell |-> c, name |-> kept[c].name], kept[c].live, v, c)

\* Consumer j renders: it reads the context
Consume(j) ==
    /\ seen[j] # useStorageContext(ctx)
    /\ seen' = [seen EXCEPT ![j] = useStorageContext(ctx)]
    /\ last' = [NoOp EXCEPT !.op = "consume", !.cell = j]
    /\ UNCHANGED <<store, raw, memo, effect, ret, ctx, kept, wrote, inited, runs>>
    /\ UNCHANGED <<catches, pureVars>>

\* Consumer j calls the write function it got from the context
ContextWrite(j, v) ==
    /\ seen[j].provided
    /\ CallSetter(seen[j].setter, TRUE, v, j)

\* The component of cell c unmounts, once the effect of its last render ran
Unmount(c) ==
    /\ ret[c].status # "none"
    /\ ~effect[c].pending
    /\ Discard(c)
    /\ last' = [NoOp EXCEPT !.op = "unmount", !.cell = c, !.cached = raw[c]]
    /\ UNCHANGED <<store, inited>>
    /\ UNCHANGED <<catches, pureVars>>

\* Another script sets the entry of key k to s
ExternalSet(k, s) ==
    /\ store' = setItem(store, k, s)
    /\ last' = [NoOp EXCEPT !.op = "external", !.name = k, !.value = Str(s),
                            !.persisted = store[k]]
    /\ wrote' = Touch(wrote, k, "")
    /\ inited' = [inited EXCEPT ![k] = FALSE]
    /\ UNCHANGED <<raw, memo, effect, ret, ctx, seen, kept, runs>>
    /\ UNCHANGED <<catches, pureVars>>

\* Another script removes key k
ExternalRemove(k) ==
    /\ store[k] # Null
    /\ store' = [store EXCEPT ![k] = Null]
    /\ last' = [NoOp EXCEPT !.op = "external", !.name = k, !.value = Null,
                            !.persisted = store[k]]
    /\ wrote' = Touch(wrote, k, "")
    /\ inited' = [inited EXCEPT ![k] = FALSE]
    /\ UNCHANGED <<raw, memo, effect, ret, ctx, seen, kept, runs>>
    /\ UNCHANGED <<catches, pureVars>>

\* localStorage outlives the page: a run starts with any content.
InitialEntries == {Null} \cup {Str(s) : s \in ExternalStrings}

Init ==
    /\ catches \in BOOLEAN
    /\ store \in [Keys -> InitialEntries]
    /\ raw = [c \in Cells |-> Undefined]
    /\ memo = [c \in Cells |-> NoMemo]
    /\ effect = [c \in Cells |-> NoEffect]
    /\ ret = [c \in Cells |-> NoRet]
    /\ ctx = Placeholder
    /\ seen = [j \in Consumers |-> NotRendered]
    /\ last = NoOp
    /\ wrote = [c \in Cells |-> NoWrite]
    /\ inited = [k \in Keys |-> FALSE]
    /\ runs = [c \in Cells |-> NoRuns]
    /\ kept = [c \in Cells |-> NoKept]
    /\ pcP = "idle" /\ pIn = Undefined /\ pStr = <<>> /\ pOut = Undefined

\* The cells that are mounted in the behaviours of Spec
Mounted == {Root}

Next ==
    \/ \E c \in Mounted, cfg \in Configs : Render(c, cfg)
    \/ \E c \in Mounted : RunEffect(c)
    \/ \E c \in Mounted, v \in WriteValues : Write(c, v)
    \/ \E j \in Consumers : Consume(j)
    \/ \E j \in Consumers, v \in WriteValues : ContextWrite(j, v)
    \/ \E c \in Mounted : Unmount(c)
    \/ \E k \in Keys, s \in ExternalStrings : ExternalSet(k, s)
    \/ \E k \in Keys : ExternalRemove(k)

Spec == Init /\ [][Next]_vars

(***************************************************************************)
(* The root cell, whose component keeps a setter beyond the render that    *)
(* returned it and calls it later: after the key of the cell changed, or   *)
(* after the cell unmounted.  No consumer calls and no other script.       *)
(***************************************************************************)
NextLate ==
    \/ \E cfg \in Configs : Render(Root, cfg)
    \/ RunEffect(Root)
    \/ \E v \in WriteValues : Write(Root, v)
    \/ Keep(Root)
    \/ \E v \in WriteValues : LateWrite(Root, v)
    \/ Unmount(Root)

SpecLate == Init /\ [][NextLate]_vars

(***************************************************************************)
(* One cell, alone with localStorage: the root component, the consumers    *)
(* below its provider, and no other script.                                *)
(***************************************************************************)
\* Here the component may also pass a default that String() throws on.
AloneConfigs ==
    Configs \cup {[name |-> k, defaultValue |-> Unprintable, ref |-> r] : k \in Keys, r \in Refs}

NextAlone ==
    \/ \E cfg \in AloneConfigs : Render(Root, cfg)
    \/ RunEffect(Root)
    \/ \E v \in WriteValues : Write(Root, v)
    \/ \E j \in Consumers : Consume(j)
    \/ \E j \in Consumers, v \in WriteValues : ContextWrite(j, v)
    \/ Unmount(Root)

SpecAlone == Init /\ [][NextAlone]_vars

(***************************************************************************)
(* Two independent cells: two components that each call useStorage, with   *)
(* primitive defaults, and another script writing to localStorage.         *)
(***************************************************************************)
CellConfigs == {cfg \in Configs : cfg.defaultValue = Int2Num(1)}
CellWrites == {Str(<<>>), Int2Num(1)}

NextCells ==
    \/ \E c \in Cells, cfg \in CellConfigs : Render(c, cfg)
    \/ \E c \in Cells : RunEffect(c)
    \/ \E c \in Cells, v \in CellWrites : Write(c, v)
    \/ \E k \in Keys, s \in ExternalStrings : ExternalSet(k, s)

SpecCells == Init /\ [][NextCells]_vars

\* A step is a read of cell c exactly when it leaves the record of a render of
\* c in last; a render is possible whenever no effect of the cell is due.
Reread(c) ==
    /\ ~effect[c].pending
    /\ \E cfg \in CellConfigs, outcome \in BOOLEAN :
           last' = [RenderRecord(c, cfg) EXCEPT !.threw = outcome]

\* Both cells keep being read, and a scheduled effect is run.
SpecCellsFair ==
    SpecCells /\ \A c \in Cells : WF_vars(RunEffect(c)) /\ SF_last(Reread(c))

(***************************************************************************)
(* The coercion on its own: a value is turned into a string by String()    *)
(* (a string is its own String()) and the string is coerced by parseString.*)
(***************************************************************************)
MaxLen == 3
MaxMantissa == 12

Alphabet == {"0", "1", "-", ".", "e", "[", "]", "{", "}", " ", "a"}

Literals ==
    { <<"t", "r", "u", "e">>, <<"f", "a", "l", "s", "e">>, <<"n", "u", "l", "l">>,
      <<"N", "a", "N">>, <<"I", "n", "f", "i", "n", "i", "t", "y">>,
      <<"-", "I", "n", "f", "i", "n", "i", "t", "y">>,
      <<"u", "n", "d", "e", "f", "i", "n", "e", "d">>,
      <<"[", "o", "b", "j", "e", "c", "t", " ", "O", "b", "j", "e", "c", "t", "]">>,
      <<"{", "\"", "a", "\"", ":", "1", "}">>, <<"[", "1", ",", "0", "]">>,
      <<"[", "t", "r", "u", "e", "]">>, <<"\"", "a", "\"">>, <<"3", "a", "b", "c">>,
      <<"1", "e", "3", "0", "9">>, <<"1", "e", "+", "2", "1">>, <<"+", "1">>,
      <<" ", "t", "r", "u", "e">>, <<"T", "r", "u", "e">>,
      <<"\f", "1">>, <<CodeUnitChar(11), "1">>, <<CodeUnitChar(160), "1">>,
      <<"1", "8", "e", "3", "0", "7">>, <<"1", ".", "8", "e", "3", "0", "8">>,
      <<"1", "e", "-", "3", "2", "4">>, <<"3", "e", "-", "3", "2", "4">>,
      <<"2", "5", "e", "-", "3", "2", "5">>,
      <<"1", "e", "9", "9", "9", "9", "9", "9", "9", "9", "9", "9">>,
      <<"0", ".", "0", "1", "e", "0", "0", "0", "0", "0", "0", "0", "0", "0", "0", "2">>,
      <<"1", "e", "-", "4", "0", "0", "0", "0", "0", "0", "0", "0", "0">>,
      <<"0", "e", "4", "0", "0", "0", "0", "0", "0", "0", "0", "0">>,
      <<"[", "1", "e", "4", "2", "0", "]">>, <<"1", "e", "4", "0", "5">>,
      <<"9", "0", "0", "7", "1", "9", "9", "2", "5", "4", "7", "4", "0", "9", "9", "3">>,
      <<"{", "\"", "b", "\"", ":", "1", ",", "\"", "1", "\"", ":", "2", "}">>,
      <<"{", "\"", "t", "o", "S", "t", "r", "i", "n", "g", "\"", ":", "1", "}">>,
      <<"[", "\"", "\\", "b", "\\", "f", "\\", "u", "0", "0", "e", "9", "\"", "]">>,
      <<"[", "\"", CodeUnitChar(1), "\"", "]">>, <<"[", "\"", "\\", "u", "0", "0", "\"", "]">> }

TestStrings == UNION {[1..n -> Alphabet] : n \in 0..MaxLen} \cup Literals

Exponents == -8..22

\* The largest double, the smallest, and 2^53 + 2 written with 17 digits
Extremes ==
    {Decimal(FALSE, <<"1", "7", "9", "7", "6", "9", "3", "1", "3", "4", "8", "6", "2", "3",
                      "1", "5", "7">>, 292),
     Decimal(TRUE, <<"5">>, -324),
     Decimal(FALSE, <<"9", "0", "0", "7", "1", "9", "9", "2", "5", "4", "7", "4", "0", "9",
                      "9", "3", "7">>, -1)}

TestNumbers ==
    {MkNum(neg, m, e) : neg \in BOOLEAN, m \in 0..MaxMantissa, e \in Exponents}
    \cup {NaN, Infinity(FALSE), Infinity(TRUE)} \cup Extremes

TestValues ==
    {Str(s) : s \in TestStrings} \cup TestNumbers
    \cup {Bool(TRUE), Bool(FALSE), Undefined, Null, AppState, Arr(<<>>),
          Arr(<<Int2Num(1), Int2Num(0)>>), Obj(<<>>, <<>>), Unprintable,
          Arr(<<Int2Num(1), Unprintable>>)}

InitCoerce ==
    /\ pcP = "value" /\ pIn \in TestValues /\ pStr = <<>> /\ pOut = Undefined
    /\ catches = FALSE
    /\ store = [k \in Keys |-> Null]
    /\ raw = [c \in Cells |-> Undefined]
    /\ memo = [c \in Cells |-> NoMemo]
    /\ effect = [c \in Cells |-> NoEffect]
    /\ ret = [c \in Cells |-> NoRet]
    /\ ctx = Placeholder
    /\ seen = [j \in Consumers |-> NotRendered]
    /\ last = NoOp
    /\ wrote = [c \in Cells |-> NoWrite]
    /\ inited = [k \in Keys |-> FALSE]
    /\ runs = [c \in Cells |-> NoRuns]
    /\ kept = [c \in Cells |-> NoKept]

\* String(pIn), or the end of the run where it throws
Stringify ==
    /\ pcP = "value"
    /\ \E str \in {String(pIn)} :
           IF str = TypeError THEN pcP' = "threw" /\ pStr' = pStr
           ELSE pcP' = "string" /\ pStr' = str
    /\ UNCHANGED <<pIn, pOut>>
    /\ UNCHANGED hookVars

Coerce ==
    /\ pcP = "string"
    /\ pOut' = parseString(pStr)
    /\ pcP' = "done"
    /\ UNCHANGED <<pIn, pStr>>
    /\ UNCHANGED hookVars

NextCoerce == Stringify \/ Coerce

SpecCoerce == InitCoerce /\ [][NextCoerce]_vars

(***************************************************************************)
(* Properties                                                              *)
(***************************************************************************)

\* The last operation was a read (a render) of a cell
ReadDone == last.op = "render"
\* The last operation was a run of the initialize step (the effect) of a cell
\* that ran to its end ("effectThrew": String(defaultValue) threw in it)
InitDone == last.op = "effect"

\* C1: every read performed while the Cached String differs from the current
\* Persisted String of the key (here: of a key that has one) fails with the
\* consistency fault, also when the Cached String and the key are the ones of
\* the previous read and the Persisted String was changed out of band.
C1_ReadDetectsMismatch ==
    (ReadDone /\ last.persisted # Null /\ last.cached # last.persisted)
        => last.threw

\* C2: the read that follows a write(v) of the same cell on the same key, with
\* nothing else touching the key in between, succeeds and returns
\* coerce(String(v)).
C2_WriteThenRead ==
    (ReadDone /\ last.after.has /\ last.after.by # "init")
        => /\ ret[last.cell].status = "returned"
           /\ ret[last.cell].getter = parseString(String(last.after.value))

\* C3: initialize on a key with no Persisted String, a default d given, stores
\* String(d) and makes it the Cached String.
C3_InitSeedsDefault ==
    (InitDone /\ last.persisted = Null /\ last.value # Undefined)
        => /\ store[last.name] = Str(String(last.value))
           /\ raw[last.cell] = Str(String(last.value))

\* C3 witness: an absent key was seeded with the default 1
C3_Witness ==
    /\ InitDone /\ last.persisted = Null /\ last.value = Int2Num(1)
    /\ store[last.name] = Str(<<"1">>) /\ raw[last.cell] = Str(<<"1">>)

\* C4: initialize on a key that has a Persisted String p (the empty string
\* included), whatever the default, leaves p stored and makes p the Cached String.
C4_InitAdoptsPresent ==
    (InitDone /\ last.persisted # Null)
        => /\ store[last.name] = last.persisted
           /\ raw[last.cell] = last.persisted

\* C5: initialize with no default on a key with no Persisted String stores the
\* empty string and makes it the Cached String.
C5_InitNoDefaultEmpty ==
    (InitDone /\ last.persisted = Null /\ last.value = Undefined)
        => /\ store[last.name] = Str(<<>>)
           /\ raw[last.cell] = Str(<<>>)

\* C6: a composite value v round-trips through the hook: the read that follows
\* write(v), or the seeding of an absent key with default v, returns a
\* composite equal to v.
C6_CompositeRoundTrip ==
    (ReadDone /\ last.after.has /\ IsObject(last.after.value))
        => /\ ret[last.cell].status = "returned"
           /\ ret[last.cell].getter = last.after.value

\* coerce by the stated precedence; the numeric step takes finite numbers
\* only (finiteOnly) or every number but NaN.
CoerceByPrecedence(s, finiteOnly) ==
    LET j == JSONparse(s)
        n == parseFloat(s)
    IN  IF j.ok /\ IsObject(j.val) THEN j.val
        ELSE IF (IF finiteOnly THEN n.cls = "finite" ELSE n.cls # "NaN") THEN n
        ELSE IF s = <<"t", "r", "u", "e">> THEN Bool(TRUE)
        ELSE IF s = <<"f", "a", "l", "s", "e">> THEN Bool(FALSE)
        ELSE Str(s)

\* C7 (as stated): coercion follows the precedence structured, finite number,
\* boolean, unchanged string, for every input string.
C7_PrecedenceFinite ==
    (pcP = "done" /\ pIn.kind = "String") => pOut = CoerceByPrecedence(pIn.s, TRUE)

\* C7 (amended): coercion follows the precedence structured, number other than
\* NaN (an infinity included), boolean, unchanged string, for every input string.
C7_Precedence ==
    (pcP = "done" /\ pIn.kind = "String") => pOut = CoerceByPrecedence(pIn.s, FALSE)

\* C7 witness: "1e309" was coerced to Infinity by the numeric step
C7_Witness ==
    /\ pcP = "done" /\ pIn = Str(<<"1", "e", "3", "0", "9">>)
    /\ pOut = Infinity(FALSE)

\* a == b on numbers: NaN equals nothing, the two zeros are equal
NumEq(a, b) ==
    /\ a.kind = "Number" /\ b.kind = "Number"
    /\ a.cls # "NaN" /\ a.cls = b.cls
    /\ a.ds = b.ds /\ a.e = b.e
    /\ (a.cls = "Infinity" \/ a.ds # <<"0">>) => a.neg = b.neg

\* A string with a numeric form: past white space and a sign it starts with a
\* digit, with a point and a digit, or with Infinity.
HasNumericForm(s) ==
    LET i0 == SkipWS(s, 1)
        i == IF i0 <= Len(s) /\ s[i0] \in {"+", "-"} THEN i0 + 1 ELSE i0
    IN  \/ i <= Len(s) /\ IsDigit(s[i])
        \/ i + 1 <= Len(s) /\ s[i] = "." /\ IsDigit(s[i + 1])
        \/ HasAt(s, i, <<"I", "n", "f", "i", "n", "i", "t", "y">>)

HasBooleanForm(s) == s \in {<<"t", "r", "u", "e">>, <<"f", "a", "l", "s", "e">>}

HasStructuredForm(s) == JSONparse(s).ok /\ IsObject(JSONparse(s).val)

PlainString(s) == ~HasNumericForm(s) /\ ~HasBooleanForm(s) /\ ~HasStructuredForm(s)

RoundTrip(numbers) ==
    pcP = "done" =>
        /\ (pIn.kind = "Number" /\ pIn \in numbers) => NumEq(pOut, pIn)
        /\ pIn.kind = "Boolean" => pOut = pIn
        /\ (pIn.kind = "String" /\ PlainString(pIn.s)) => pOut = pIn

\* C8 (as stated): coerce(String(v)) == v for every number v and every boolean
\* v, and coerce(s) == s for every string s with no numeric, boolean or
\* structured form.
C8_RoundTripEveryNumber == RoundTrip(TestNumbers)

\* C8 (amended): coerce(String(v)) == v for every number v other than NaN and
\* every boolean v, and coerce(s) == s for every string s with no numeric,
\* boolean or structured form.
C8_RoundTrip == RoundTrip(TestNumbers \ {NaN})

\* C8 witness: -1.2e21 was printed in exponent notation and read back
C8_Witness ==
    /\ pcP = "done" /\ pIn = MkNum(TRUE, 12, 20)
    /\ pStr = <<"-", "1", ".", "2", "e", "+", "2", "1">>
    /\ pOut = pIn

\* C9: an initialize that runs for a key on which an initialize ran before,
\* with no outside write in between, leaves the Persisted String as it was.
C9_InitIdempotent ==
    (InitDone /\ last.again) => store[last.name] = last.persisted

\* C10: while a provider is active every consumer holds the pair the provider
\* was given (the same value and the same write function), and after a
\* consumer's write(v) the next render hands coerce(String(v)) to all of them.
C10_BroadcasterSharing ==
    /\ ctx.provided => \A j \in Consumers : seen[j] = ctx
    /\ \A j1, j2 \in Consumers :
          (seen[j1].provided /\ seen[j2].provided) => seen[j1] = seen[j2]
    /\ (ReadDone /\ last.cell = Root /\ last.after.has /\ last.after.by \in Consumers)
          => \A j \in Consumers :
                /\ seen[j].provided
                /\ seen[j].getter = parseString(String(last.after.value))
                /\ seen[j].setter = [cell |-> Root, name |-> last.name]

\* C11: the context holds either the placeholder or the pair the provider was
\* given at the root cell's last successful render, nothing else; a consumer
\* that reads it with no provider active (none mounted yet, or the provider
\* unmounted) gets the placeholder and no fault, and with a provider active
\* gets exactly the pair the provider was given.
C11_UnprovidedPlaceholder ==
    /\ ctx = Placeholder \/ ctx.provided
    /\ ctx.provided =>
          /\ memo[Root].has
          /\ ctx = StorageProvider(memo[Root].value, [cell |-> Root, name |-> memo[Root].name])
    /\ last.op = "consume" =>
          seen[last.cell] = IF ctx.provided THEN ctx ELSE Placeholder
    /\ \A j \in Consumers : seen[j] \in {NotRendered, Placeholder, ctx}

\* C11 witness: the root cell ran, initialized a key and unmounted with its
\* provider; a consumer then read the context and got the placeholder
C11_Witness ==
    /\ last.op = "consume" /\ ret[Root].status = "none"
    /\ \E k \in Keys : inited[k]
    /\ ~ctx.provided /\ seen[last.cell] = Placeholder

\* The last operation was a call of a cell's write function that returned
\* ("writeThrew": String(value) threw in it)
WriteDone == last.op = "write"

\* The write that led to this state was made on a mounted cell, through a
\* write function of the key the cell has
CurrentWrite == WriteDone /\ last.current

\* C12 (as stated): right after any call write(v) returned, the Persisted
\* String of the written key and the Cached String of the cell both equal
\* String(v); and the read that follows, with nothing but the cell's own due
\* initialize in between, does not see the two differ.
C12_EveryWrite ==
    /\ WriteDone =>
          /\ store[last.name] = Str(String(last.value))
          /\ raw[last.cell] = Str(String(last.value))
    /\ (ReadDone /\ last.after.has /\ last.after.by # "init") =>
          last.cached = last.persisted

\* C12 (amended): right after a call write(v) on a mounted cell, through a
\* write function of the key the cell has, returned, the Persisted String of
\* that key and the Cached String of the cell both equal String(v); and the
\* read that follows such a write, with nothing but the cell's own due
\* initialize in between, does not see the two differ.
C12_WriteComplete ==
    /\ CurrentWrite =>
          /\ store[last.name] = Str(String(last.value))
          /\ raw[last.cell] = Str(String(last.value))
    /\ (ReadDone /\ last.after.has /\ last.after.by \notin {"init", "late"}) =>
          last.cached = last.persisted

\* C12 witness: the README's app state was written, on a mounted cell with an
\* effect still due, over a different string, and both strings are
\* "[object Object]" at the return
C12_Witness ==
    /\ CurrentWrite /\ last.value = AppState
    /\ effect[last.cell].pending
    /\ last.persisted # store[last.name] /\ last.cached # raw[last.cell]
    /\ store[last.name] = Str(String(AppState)) /\ raw[last.cell] = store[last.name]

\* Cell d is active on key k: its last render was given k, returned, and its
\* initialize step has run
ActiveOn(d, k) ==
    /\ ret[d].status = "returned" /\ effect[d].name = k /\ ~effect[d].pending
    /\ raw[d] # Undefined

\* A cell has just written to a key on which another cell is active with a
\* Cached String different from the written string
CompetingWrite ==
    /\ WriteDone
    /\ \E d \in Cells \ {last.cell} :
          ActiveOn(d, last.name) /\ raw[d] # Str(String(last.value))

\* A read has just raised the consistency fault
FaultRaised == ReadDone /\ last.threw

\* C13: when a cell writes to a key on which another cell is active with a
\* different Cached String, and both cells keep being read, some read
\* eventually raises the consistency fault.
C13_CompetingDetected == CompetingWrite ~> FaultRaised

\* The kinds of value in JavaScript that are Composite, Number, Boolean, String
CoercedKinds == {"Array", "Object", "Number", "Boolean", "String"}

\* C14: for every input string, valid structured data or not, coerce raises no
\* error and returns a value of exactly one of the kinds Composite, Number,
\* Boolean, String; coercing the same string again gives an equal value.
C14_CoercionTotal ==
    pcP = "done" =>
        /\ pOut.kind \in CoercedKinds
        /\ pOut.kind = "Number" => ~isNaN(pOut)
        /\ parseString(pStr) = pOut

\* C14 witness: "{a}", which JSON.parse rejects and parseFloat cannot read,
\* came back as the string itself
C14_Witness ==
    /\ pcP = "done" /\ pStr = <<"{", "a", "}">>
    /\ ~JSONparse(pStr).ok /\ isNaN(parseFloat(pStr))
    /\ pOut = Str(pStr)

\* C15: with a single cell and no other script writing to localStorage, no
\* read raises the consistency fault, the first read of a new cell included,
\* whatever localStorage held at the start and whatever the default.
C15_NoFaultAlone == ReadDone => ~last.threw

\* C16: while a cell keeps its key, its initialize step runs at most once,
\* whatever re-renders, writes and changes of the default value happen.
C16_InitOnce == \A c \in Cells : runs[c].n <= 1

\* C17: a step changes a cell's Cached String only if it is that cell's own
\* initialize or write (an external change of the store and a write of
\* another cell leave it as it was), and a write on key k leaves the
\* Persisted String of every other key as it was.
C17_Frame ==
    [][/\ \A c \in Cells :
            raw'[c] # raw[c] => (last'.op \in {"effect", "write"} /\ last'.cell = c)
       /\ last'.op = "write" =>
            \A k \in Keys \ {last'.name} : store'[k] = store[k]]_vars

\* C17 witness: the root cell wrote to the key on which the other cell is
\* active, and the other cell still holds its own, different, Cached String
C17_Witness ==
    /\ WriteDone /\ last.cell = Root
    /\ ActiveOn(Solo, last.name)
    /\ raw[Solo] # raw[Root] /\ store[last.name] = raw[Root]
    /\ \E k \in Keys \ {last.name} : store[k] # Null /\ store[k] # store[last.name]

\* The last operation was a read of a live cell with a key other than the key
\* of its previous read
KeyChanged == ReadDone /\ last.prev # "" /\ last.prev # last.name

\* C18: with a single cell and no other script writing, the read that comes
\* with a change of key raises no consistency fault and returns coerce of the
\* new key's Persisted String.
C18_KeyChange ==
    KeyChanged =>
        /\ ret[last.cell].status = "returned"
        /\ ret[last.cell].getter = parseString(Nullish(last.persisted, Str(<<>>)).s)

====
